---- MODULE Spec2Model ----
(***************************************************************************)
(* A model of the OpenMP task scheduler (task_scheduler.c), its workload   *)
(* generators (workloads.c), its correctness test (test_correctness.c) and *)
(* the benchmark harness (benchmark.c).                                    *)
(*                                                                         *)
(* The caller (one thread) initialises a scheduler, submits tasks and      *)
(* calls scheduler_run, which forks an OpenMP team.  Every thread of the   *)
(* team is a process of the model; each `#pragma omp atomic` update and    *)
(* each claim on a work-sharing loop's cursor is one atomic step.          *)
(* Wall-clock time is not modelled: total_exec_time_ns and the value of a  *)
(* latency sample are left out, the write of a latency slot is kept.       *)
(***************************************************************************)
EXTENDS Integers, Sequences, FiniteSets

\* ------------------------------------------------------------------ bounds
MaxThreads == 2
MaxCapacity == 3
MaxExtraSubmits == 2
MaxBenchTasks == 4
MaxArraySize == 201
MaxSamples == 2
MaxLoadThreads == 3
MaxCount == 3
MaxCompleted == 4
MaxSmallArraySize == 12

\* ------------------------------------------------------- program constants
TASK_LIGHT == 1
TASK_MEDIUM == 2
TASK_HEAVY == 3
ReductionChunks == 100
NumBuckets == 8

Weights == {TASK_LIGHT, TASK_MEDIUM, TASK_HEAVY}
ScheduleMode == {"STATIC", "DYNAMIC", "GUIDED", "HETEROGENEOUS", "ADAPTIVE"}
HeteroModes == {"HETEROGENEOUS", "ADAPTIVE"}

\* A queue slot that malloc returned and nobody wrote yet.
NoTask == [func |-> "none", arg |-> <<0, 0>>, weight |-> 0, id |-> -1]

VARIABLES
    \* TaskScheduler (task_scheduler.h:37-50)
    task_queue, capacity, head, tail, active_tasks, num_threads, mode,
    running, tasks_completed,
    \* OpenMP: the nthreads-var ICV that omp_set_num_threads sets
    nthreads_var,
    \* the caller's position
    pc,
    \* the team of the parallel region: thr[tid] = [pc, i, end, exit]
    thr,
    \* the cursor of the work-sharing loop (omp for)
    next_iter,
    \* locals of execute_task_*: total, sorted, light_count
    total, sorted, light_count,
    \* what the task bodies touch: the test's counter, the reduction's result
    counter, result,
    \* run_reduction_workload: array_size and loop variable
    array_size, red_i,
    \* harness (benchmark_schedule_mode): thread_counts, executed, latency writes
    thread_counts, executed, latency_writes,
    \* print_latency_histogram: latencies, buckets, loop variable
    latencies, buckets, hist_i,
    \* history: how often the task with a given id was called; guided chunk sizes
    exec_count, chunks,
    \* analyze_thread_load: threads, loop variable, *min, *max, sum, *mean, *fairness
    threads, load_i, load_min, load_max, load_sum, load_mean, fairness,
    \* benchmark_lock_based: the holder of task_lock, next_task_idx
    task_lock, next_task_idx,
    \* whether a store went through the null pointer that malloc returned
    null_deref

schedVars == <<task_queue, capacity, head, tail, active_tasks, num_threads, mode,
               running, tasks_completed, nthreads_var>>
runVars == <<thr, next_iter, total, sorted, light_count, exec_count, chunks>>
bodyVars == <<counter, result>>
redVars == <<array_size, red_i>>
benchVars == <<thread_counts, executed, latency_writes>>
histVars == <<latencies, buckets, hist_i>>
loadVars == <<threads, load_i, load_min, load_max, load_sum, load_mean, fairness>>
lockVars == <<task_lock, next_task_idx>>
extVars == <<loadVars, lockVars, null_deref>>
vars == <<schedVars, pc, runVars, bodyVars, redVars, benchVars, histVars, extVars>>

\* ------------------------------------------------------------ scheduler_init
EmptyQueue(cap) == [i \in 0..(cap - 1) |-> NoTask]

scheduler_init(nt, cap, m) ==
    /\ task_queue = EmptyQueue(cap)
    /\ capacity = cap
    /\ head = 0
    /\ tail = 0
    /\ active_tasks = 0
    /\ num_threads = nt
    /\ mode = m
    /\ running = FALSE
    /\ tasks_completed = 0
    /\ nthreads_var = nt

NoRun ==
    /\ thr = << >>
    /\ next_iter = 0
    /\ total = 0
    /\ sorted = << >>
    /\ light_count = 0
    /\ chunks = << >>

NoBench ==
    /\ thread_counts = << >>
    /\ executed = << >>
    /\ latency_writes = << >>

NoHist ==
    /\ latencies = << >>
    /\ buckets = << >>
    /\ hist_i = 0

\* A rational number num / den, den > 0: the doubles of analyze_thread_load.
Ratio(num, den) == [num |-> num, den |-> den]

NoLoad ==
    /\ threads = 0
    /\ load_i = 0
    /\ load_min = 0
    /\ load_max = 0
    /\ load_sum = 0
    /\ load_mean = Ratio(0, 1)
    /\ fairness = Ratio(0, 1)

\* omp_init_lock leaves the lock unset: -1 stands for no holder.
NoLock ==
    /\ task_lock = -1
    /\ next_task_idx = 0

NoExt ==
    /\ NoLoad
    /\ NoLock
    /\ null_deref = FALSE

NoReduction ==
    /\ array_size = 0
    /\ red_i = 0

\* ---------------------------------------------------------- scheduler_submit
\* The slot written is tail % capacity; there is no test for a full queue.
SubmitSlot(t, cap) == t % cap

Submitted(q, t, cap, f, a, w) ==
    [q EXCEPT ![SubmitSlot(t, cap)] = [func |-> f, arg |-> a, weight |-> w, id |-> t]]

scheduler_submit(f, a, w) ==
    /\ task_queue' = Submitted(task_queue, tail, capacity, f, a, w)
    /\ tail' = tail + 1
    /\ active_tasks' = active_tasks + 1
    /\ UNCHANGED <<capacity, head, num_threads, mode, running, tasks_completed,
                   nthreads_var>>


\* ------------------------------------------------------------- task bodies
\* run_reduction_workload fills the array with ones (workloads.c:58).
ArrayValue(i) == 1

RECURSIVE SumRange(_, _)
SumRange(i, end) == IF i >= end THEN 0 ELSE ArrayValue(i) + SumRange(i + 1, end)

\* reduction_task: the private sum of array[start..end)
ReductionSum(arg) == SumRange(arg[1], arg[2])

\* `#pragma omp atomic` read-modify-write
AtomicAdd(x, d) == x + d

\* The call task.func(task.arg): dummy_task increments the test's counter,
\* reduction_task adds its private sum to the shared result, the light, medium
\* and heavy tasks only compute on private data.
TaskBody(task) ==
    /\ counter' = IF task.func = "dummy_task" THEN AtomicAdd(counter, 1) ELSE counter
    /\ result' = IF task.func = "reduction_task"
                     THEN AtomicAdd(result, ReductionSum(task.arg))
                     ELSE result
    /\ exec_count' = IF task.id \in DOMAIN exec_count
                         THEN [exec_count EXCEPT ![task.id] = @ + 1]
                         ELSE exec_count

\* ------------------------------------------------- OpenMP parallel regions
Team == DOMAIN thr

\* A thread that leaves its loop for a new claim or for the barrier: its loop
\* variables are dead there (the next claim assigns them).
Left(to) == [pc |-> to, i |-> 0, end |-> 0, exit |-> to]

\* A thread that enters the loop `for (i = start; i < end; i++)`, to go to
\* `exit` after it: the loop test reads the thread's own variables only.
Chunk(start, end, exit) ==
    IF start < end THEN [pc |-> "loop", i |-> start, end |-> end, exit |-> exit]
    ELSE Left(exit)

\* The end of a loop body: i++ and the loop test.
Resume(w) == Chunk(w.i + 1, w.end, w.exit)

AllDone == \A t \in Team : thr[t].pc = "done"

\* Faulty variant: the chunk size rounded down instead of up
ChunkSizeFloor(n, nthreads) == n \div nthreads

\* chunk_size = (total + nthreads - 1) / nthreads
ChunkSize(n, nthreads) == (n + nthreads - 1) \div nthreads

\* Faulty variant: thread ids counted from one
StartIndexFromOne(tid, chunk) == (tid + 1) * chunk

\* start = tid * chunk_size
StartIndex(tid, chunk) == tid * chunk

\* Faulty variant: the end of the chunk is not cut at the number of tasks
ChunkEndUnclamped(start, chunk, n) == start + chunk

\* end = (start + chunk_size > total) ? total : start + chunk_size
ChunkEnd(start, chunk, n) == IF start + chunk > n THEN n ELSE start + chunk

\* Faulty variant: the guided chunk rounded down instead of up
GuidedChunkFloor(remaining, nthreads) ==
    LET q == remaining \div nthreads
    IN  IF q < 1 THEN 1 ELSE IF q > remaining THEN remaining ELSE q

\* schedule(guided): the chunk granted when `remaining` iterations are unassigned
GuidedChunk(remaining, nthreads) ==
    LET q == (remaining + nthreads - 1) \div nthreads
    IN  IF q < 1 THEN 1 ELSE IF q > remaining THEN remaining ELSE q

\* Thread t of the team is at label p of the region that scheduler_run opened
\* for a mode in ms.
At(t, ms, p) ==
    /\ pc = "running"
    /\ t \in Team
    /\ mode \in ms
    /\ thr[t].pc = p

\* Faulty variant: the decrement of the outstanding-task counter is missing
NotDecremented(x) == x

\* sched->active_tasks-- under `#pragma omp atomic`
Decremented(x) == AtomicAdd(x, -1)

\* Faulty variant: a completed task is counted twice
atomic_completed_twice(t) ==
    /\ At(t, ScheduleMode, "completed")
    /\ tasks_completed' = AtomicAdd(tasks_completed, 2)
    /\ thr' = [thr EXCEPT ![t].pc = "active"]
    /\ UNCHANGED <<task_queue, capacity, head, tail, active_tasks, num_threads, mode,
                   running, nthreads_var, pc, next_iter, total, sorted, light_count,
                   exec_count, chunks, bodyVars, redVars, benchVars, histVars, extVars>>

\* The three atomic updates after a task; the first (total_exec_time_ns) is time.
atomic_completed(t) ==
    /\ At(t, ScheduleMode, "completed")
    /\ tasks_completed' = AtomicAdd(tasks_completed, 1)
    /\ thr' = [thr EXCEPT ![t].pc = "active"]
    /\ UNCHANGED <<task_queue, capacity, head, tail, active_tasks, num_threads, mode,
                   running, nthreads_var, pc, next_iter, total, sorted, light_count,
                   exec_count, chunks, bodyVars, redVars, benchVars, histVars, extVars>>

atomic_active(t) ==
    /\ At(t, ScheduleMode, "active")
    /\ active_tasks' = Decremented(active_tasks)
    /\ thr' = [thr EXCEPT ![t] = Resume(thr[t])]
    /\ UNCHANGED <<task_queue, capacity, head, tail, tasks_completed, num_threads, mode,
                   running, nthreads_var, pc, next_iter, total, sorted, light_count,
                   exec_count, chunks, bodyVars, redVars, benchVars, histVars, extVars>>

\* A worker calls the task at its index i; the three updates follow.
CallTask(t, task) ==
    /\ TaskBody(task)
    /\ thr' = [thr EXCEPT ![t].pc = "completed"]
    /\ UNCHANGED <<schedVars, pc, next_iter, total, sorted, light_count, chunks,
                   redVars, benchVars, histVars, extVars>>

Goto(t, to) ==
    /\ thr' = [thr EXCEPT ![t] = Left(to)]
    /\ UNCHANGED <<schedVars, pc, next_iter, total, sorted, light_count, chunks,
                   exec_count, bodyVars, redVars, benchVars, histVars, extVars>>

\* Faulty variant: the claim leaves the cursor where it was
ClaimChunkNoAdvance(t, q, log) ==
    /\ thr' = [thr EXCEPT ![t] = Chunk(next_iter, next_iter + q, "claim")]
    /\ chunks' = IF log THEN Append(chunks, q) ELSE chunks
    /\ UNCHANGED <<schedVars, pc, next_iter, total, sorted, light_count, exec_count,
                   bodyVars, redVars, benchVars, histVars, extVars>>

\* One claim on the cursor of an omp-for loop: a chunk of q iterations.
ClaimChunk(t, q, log) ==
    /\ thr' = [thr EXCEPT ![t] = Chunk(next_iter, next_iter + q, "claim")]
    /\ next_iter' = next_iter + q
    /\ chunks' = IF log THEN Append(chunks, q) ELSE chunks
    /\ UNCHANGED <<schedVars, pc, total, sorted, light_count, exec_count, bodyVars,
                   redVars, benchVars, histVars, extVars>>

\* ------------------------------------------------------ execute_task_static
\* Lines 51-55: the chunk of thread tid in a team of nthreads, for n tasks.
StaticChunk(tid, nthreads, n, exit) ==
    LET chunk_size == ChunkSize(n, nthreads)
        start == StartIndex(tid, chunk_size)
    IN  Chunk(start, ChunkEnd(start, chunk_size, n), exit)

static_call(t) ==
    /\ At(t, {"STATIC"}, "loop")
    /\ CallTask(t, task_queue[thr[t].i])

execute_task_static(t) ==
    \/ static_call(t)

\* ----------------------------------------------------- execute_task_dynamic
dynamic_claim(t) ==
    /\ At(t, {"DYNAMIC"}, "claim")
    /\ next_iter < total
    /\ ClaimChunk(t, 1, FALSE)

dynamic_exit(t) ==
    /\ At(t, {"DYNAMIC"}, "claim")
    /\ ~(next_iter < total)
    /\ Goto(t, "done")

dynamic_call(t) ==
    /\ At(t, {"DYNAMIC"}, "loop")
    /\ CallTask(t, task_queue[thr[t].i])

execute_task_dynamic(t) ==
    \/ dynamic_claim(t)
    \/ dynamic_exit(t)
    \/ dynamic_call(t)

\* ------------------------------------------------------ execute_task_guided
guided_claim(t) ==
    /\ At(t, {"GUIDED"}, "claim")
    /\ next_iter < total
    /\ ClaimChunk(t, GuidedChunk(total - next_iter, Cardinality(Team)), TRUE)

guided_exit(t) ==
    /\ At(t, {"GUIDED"}, "claim")
    /\ ~(next_iter < total)
    /\ Goto(t, "done")

guided_call(t) ==
    /\ At(t, {"GUIDED"}, "loop")
    /\ CallTask(t, task_queue[thr[t].i])

execute_task_guided(t) ==
    \/ guided_claim(t)
    \/ guided_exit(t)
    \/ guided_call(t)

\* ----------------------------------------------- execute_task_heterogeneous
\* The class that the if-chain of both passes puts a weight in: anything that
\* is neither light nor medium counts as heavy.
WeightClass(w) ==
    IF w = TASK_LIGHT THEN "light" ELSE IF w = TASK_MEDIUM THEN "medium" ELSE "heavy"

\* The value of a class's counter (first pass) or write cursor offset (second
\* pass) when the loop reaches index i: the tasks of that class in q[0..i).
Before(q, i, cls) == Cardinality({j \in 0..(i - 1) : WeightClass(q[j].weight) = cls})

\* First pass (lines 123-127): light_count, medium_count, heavy_count.
CountWeights(q, n) ==
    [light |-> Before(q, n, "light"),
     medium |-> Before(q, n, "medium"),
     heavy |-> Before(q, n, "heavy")]

\* Faulty variant: the heavy region placed before the medium region
PlaceIndexHeavyFirst(q, i, c) ==
    LET cls == WeightClass(q[i].weight)
    IN  IF cls = "light" THEN Before(q, i, "light")
        ELSE IF cls = "medium" THEN c.light + c.heavy + Before(q, i, "medium")
        ELSE c.light + Before(q, i, "heavy")

\* Second pass (lines 129-138): the index of `sorted` that iteration i writes.
\* light_idx starts at 0, medium_idx at light_count, heavy_idx at
\* light_count + medium_count, and each advances by one per task of its class.
PlaceIndex(q, i, c) ==
    LET cls == WeightClass(q[i].weight)
    IN  IF cls = "light" THEN Before(q, i, "light")
        ELSE IF cls = "medium" THEN c.light + Before(q, i, "medium")
        ELSE c.light + c.medium + Before(q, i, "heavy")

\* The reordered buffer `sorted` of a queue q holding n tasks: slot k holds the
\* last task written there, or what malloc left if none was.
Stratify(q, n) ==
    LET c == CountWeights(q, n)
        dest == [i \in 0..(n - 1) |-> PlaceIndex(q, i, c)]
    IN  [k \in 0..(n - 1) |->
            LET writers == {i \in 0..(n - 1) : dest[i] = k}
            IN  IF writers = {} THEN NoTask
                ELSE q[CHOOSE i \in writers : \A j \in writers : j <= i]]

\* Lines 142-179: the light loop of a thread is followed by the omp-for loop
\* with no barrier in between.  Until its first claim the thread is in its
\* light chunk (positions below light_count); the body of both loops is the
\* same call of sorted[i] followed by the two atomic updates.
hetero_call(t) ==
    /\ At(t, HeteroModes, "loop")
    /\ CallTask(t, sorted[thr[t].i])

\* Lines 164-165: one scheduling step of the schedule(dynamic, 1) loop over
\* light_count..total-1: the next iteration, or the end of the loop.
hetero_next(t) ==
    /\ At(t, HeteroModes, "claim")
    /\ IF next_iter < total
       THEN ClaimChunk(t, 1, FALSE)
       ELSE Goto(t, "done")

execute_task_heterogeneous(t) ==
    \/ hetero_call(t)
    \/ hetero_next(t)

\* ------------------------------------------------------------ scheduler_run
\* Faulty variant: the static loop of the heterogeneous policy runs over all
\* tasks instead of the light ones
ForkLightOverAll(m, n, lc) ==
    [t \in 0..(nthreads_var - 1) |->
        IF m = "STATIC" THEN StaticChunk(t, nthreads_var, n, "done")
        ELSE IF m \in HeteroModes THEN StaticChunk(t, nthreads_var, n, "claim")
        ELSE Left("claim")]

\* The team of the parallel region of a policy over n tasks, lc of them
\* light: omp_get_num_threads() is the nthreads-var ICV, and each thread starts
\* with what it computes from its own tid before it touches anything shared.
Fork(m, n, lc) ==
    [t \in 0..(nthreads_var - 1) |->
        IF m = "STATIC" THEN StaticChunk(t, nthreads_var, n, "done")
        ELSE IF m \in HeteroModes THEN StaticChunk(t, nthreads_var, lc, "claim")
        ELSE Left("claim")]

\* The caller's part before the team is forked: running = true, the switch,
\* total = sched->tail and, for the heterogeneous policy, the stratification.
\* The cursor of the omp-for loop starts at the loop's lower bound.
run_fork ==
    /\ pc = "idle"
    /\ pc' = "running"
    /\ running' = TRUE
    /\ total' = tail
    /\ chunks' = << >>
    /\ IF mode \in HeteroModes
          THEN LET c == CountWeights(task_queue, tail)
               IN  /\ sorted' = Stratify(task_queue, tail)
                   /\ light_count' = c.light
                   /\ next_iter' = c.light
                   /\ thr' = Fork(mode, tail, c.light)
          ELSE /\ sorted' = << >>
               /\ light_count' = 0
               /\ next_iter' = 0
               /\ thr' = Fork(mode, tail, 0)
    /\ UNCHANGED <<task_queue, capacity, head, tail, active_tasks, num_threads, mode,
                   tasks_completed, nthreads_var, exec_count, bodyVars, redVars,
                   benchVars, histVars, extVars>>

\* Faulty variant: the run empties the queue when it ends
run_join_consuming ==
    /\ pc = "running"
    /\ AllDone
    /\ pc' = "returned"
    /\ running' = FALSE
    /\ thr' = << >>
    /\ sorted' = << >>
    /\ tail' = 0
    /\ head' = tail
    /\ UNCHANGED <<task_queue, capacity, active_tasks, num_threads, mode,
                   tasks_completed, nthreads_var, next_iter, total, light_count,
                   exec_count, chunks, bodyVars, redVars, benchVars, histVars, extVars>>

\* The barrier that ends the parallel region, free(sorted), running = false.
run_join ==
    /\ pc = "running"
    /\ AllDone
    /\ pc' = "returned"
    /\ running' = FALSE
    /\ thr' = << >>
    /\ sorted' = << >>
    /\ UNCHANGED <<task_queue, capacity, head, tail, active_tasks, num_threads, mode,
                   tasks_completed, nthreads_var, next_iter, total, light_count,
                   exec_count, chunks, bodyVars, redVars, benchVars, histVars, extVars>>

\* scheduler_run under the heterogeneous policy when malloc (line 120) returns
\* NULL: the result is not tested.  With no task nothing is stored and the run
\* goes on; otherwise the first store of the second pass (lines 130-137) goes
\* through the null pointer, which is undefined: the process is killed by the
\* signal, or the store lands somewhere and nothing more is known of the run.
run_fork_nomem ==
    /\ pc = "idle"
    /\ mode \in HeteroModes
    /\ running' = TRUE
    /\ total' = tail
    /\ chunks' = << >>
    /\ sorted' = << >>
    /\ light_count' = CountWeights(task_queue, tail).light
    /\ next_iter' = CountWeights(task_queue, tail).light
    /\ IF tail = 0
          THEN /\ pc' = "running"
               /\ thr' = Fork(mode, 0, 0)
               /\ null_deref' = FALSE
          ELSE /\ pc' \in {"crashed", "corrupt"}
               /\ thr' = << >>
               /\ null_deref' = TRUE
    /\ UNCHANGED <<task_queue, capacity, head, tail, active_tasks, num_threads, mode,
                   tasks_completed, nthreads_var, exec_count, bodyVars, redVars,
                   benchVars, histVars, loadVars, lockVars>>

worker(t) ==
    \/ execute_task_static(t)
    \/ execute_task_dynamic(t)
    \/ execute_task_guided(t)
    \/ execute_task_heterogeneous(t)
    \/ atomic_completed(t)
    \/ atomic_active(t)

scheduler_run ==
    \/ run_fork
    \/ \E t \in 0..(MaxThreads - 1) : worker(t)
    \/ run_join

\* ----------------------------------------------------------- scheduler_wait
\* while (active_tasks > 0) usleep(100): the caller leaves the loop when the
\* counter is not positive; until then it only sleeps.
wait_call ==
    /\ pc = "returned"
    /\ pc' = "waiting"
    /\ UNCHANGED <<schedVars, runVars, bodyVars, redVars, benchVars, histVars, extVars>>

wait_return ==
    /\ pc = "waiting"
    /\ ~(active_tasks > 0)
    /\ pc' = "waited"
    /\ UNCHANGED <<schedVars, runVars, bodyVars, redVars, benchVars, histVars, extVars>>

scheduler_wait ==
    \/ wait_call
    \/ wait_return

\* ------------------------------------------- the caller of test_correctness
\* scheduler_init, then submissions of dummy_task (the argument is &counter),
\* then scheduler_run and scheduler_wait.  The caller keeps to the capacity.
Init ==
    /\ \E nt \in 1..MaxThreads, cap \in 1..MaxCapacity, m \in ScheduleMode :
          /\ scheduler_init(nt, cap, m)
          /\ exec_count = [i \in 0..(cap - 1) |-> 0]
    /\ pc = "idle"
    /\ counter = 0
    /\ result = 0
    /\ NoRun
    /\ NoReduction
    /\ NoBench
    /\ NoHist
    /\ NoExt

submit_dummy(w) ==
    /\ pc = "idle"
    /\ scheduler_submit("dummy_task", <<0, 0>>, w)
    /\ UNCHANGED <<pc, runVars, bodyVars, redVars, benchVars, histVars, extVars>>

SubmitWithinCapacity ==
    /\ tail < capacity
    /\ \E w \in Weights : submit_dummy(w)

Next ==
    \/ SubmitWithinCapacity
    \/ scheduler_run
    \/ scheduler_wait

Spec == Init /\ [][Next]_vars

\* Every thread of the team and the caller keep running.
FairSpec == Spec /\ WF_vars(scheduler_run) /\ WF_vars(scheduler_wait)

\* scheduler_init of another TaskScheduler object, called by the same thread
\* before the run: of what this model holds it only changes the nthreads-var
\* ICV, which omp_set_num_threads (line 31) sets for the whole process.
scheduler_init_other(nt) ==
    /\ pc = "idle"
    /\ nthreads_var' = nt
    /\ UNCHANGED <<task_queue, capacity, head, tail, active_tasks, num_threads, mode,
                   running, tasks_completed, pc, runVars, bodyVars, redVars,
                   benchVars, histVars, extVars>>

\* A caller that goes on after scheduler_run or scheduler_wait has returned:
\* nothing in scheduler_run (lines 185-207) stops it from submitting or
\* running again; running is the only field the run resets.  The number of
\* further calls is cut off by the tasks completed so far.
call_again ==
    /\ pc \in {"returned", "waited"}
    /\ tasks_completed < MaxCompleted
    /\ pc' = "idle"
    /\ UNCHANGED <<schedVars, runVars, bodyVars, redVars, benchVars, histVars, extVars>>

NextRerun ==
    \/ Next
    \/ call_again

SpecRerun == Init /\ [][NextRerun]_vars

\* The caller of the test with a malloc that may fail in scheduler_run.
NextAlloc ==
    \/ Next
    \/ run_fork_nomem

SpecAlloc == Init /\ [][NextAlloc]_vars

NextTwo ==
    \/ Next
    \/ \E nt \in 1..MaxThreads : scheduler_init_other(nt)

SpecTwo == Init /\ [][NextTwo]_vars


\* ------------------------------------- any sequence of scheduler_submit calls
SubmitAny ==
    /\ tail < capacity + MaxExtraSubmits
    /\ \E w \in Weights : submit_dummy(w)

SpecSubmit == Init /\ [][SubmitAny]_vars

\* --------------------------------------------------- run_reduction_workload
\* Faulty variant: the last chunk is not cut at the end of the array
ReductionEndUnclamped(i, chunk, n) == i + chunk

\* task->end = (i + chunk > array_size) ? array_size : i + chunk
ReductionEnd(i, chunk, n) == IF i + chunk > n THEN n ELSE i + chunk

\* int chunk = array_size / 100
ReductionChunk(n) == n \div ReductionChunks

\* One iteration of the loop `for (i = 0; i < array_size; i += chunk)`.
reduction_submit ==
    /\ pc = "reduction"
    /\ red_i < array_size
    /\ scheduler_submit("reduction_task",
                        <<red_i, ReductionEnd(red_i, ReductionChunk(array_size), array_size)>>,
                        TASK_LIGHT)
    /\ red_i' = red_i + ReductionChunk(array_size)
    /\ UNCHANGED <<pc, array_size, runVars, bodyVars, benchVars, histVars, extVars>>

reduction_return ==
    /\ pc = "reduction"
    /\ ~(red_i < array_size)
    /\ pc' = "idle"
    /\ UNCHANGED <<schedVars, runVars, bodyVars, redVars, benchVars, histVars, extVars>>

run_reduction_workload ==
    \/ reduction_submit
    \/ reduction_return

\* The array sizes and team sizes of the reduction runs.
ReductionSizes == {ReductionChunks, MaxArraySize}
ReductionTeams == {1, 2}
HarnessModes == {"STATIC", "DYNAMIC", "GUIDED", "HETEROGENEOUS"}

\* benchmark_schedule_mode with workload "reduction": the scheduler's capacity
\* and the array size are both ntasks; the queue is then run by the policy.
InitReduction ==
    /\ \E nt \in ReductionTeams, n \in ReductionSizes, m \in HarnessModes :
          /\ scheduler_init(nt, n, m)
          /\ exec_count = [i \in 0..(n - 1) |-> 0]
          /\ array_size = n
    /\ red_i = 0
    /\ pc = "reduction"
    /\ counter = 0
    /\ result = 0
    /\ NoRun
    /\ NoBench
    /\ NoHist
    /\ NoExt

NextReduction ==
    \/ run_reduction_workload
    \/ scheduler_run

SpecReduction == InitReduction /\ [][NextReduction]_vars

\* run_reduction_workload for any array size: the small sizes, and the size
\* ReductionChunks as in SpecReduction.  The scheduler is set up as
\* benchmark_schedule_mode does (capacity = array size = ntasks).
SmallSizes == (1..MaxSmallArraySize) \cup {ReductionChunks}

InitReductionSmall ==
    /\ \E nt \in ReductionTeams, n \in SmallSizes, m \in HarnessModes :
          /\ scheduler_init(nt, n, m)
          /\ exec_count = [i \in 0..(n - 1) |-> 0]
          /\ array_size = n
    /\ red_i = 0
    /\ pc = "reduction"
    /\ counter = 0
    /\ result = 0
    /\ NoRun
    /\ NoBench
    /\ NoHist
    /\ NoExt

\* The loop of run_reduction_workload, followed up to MaxExtraSubmits
\* submissions beyond the array size.
NextReductionSmall ==
    \/ tail < array_size + MaxExtraSubmits /\ reduction_submit
    \/ reduction_return

SpecReductionSmall == InitReductionSmall /\ [][NextReductionSmall]_vars

\* ------------------------------------------------------ run_mixed_workload
\* Task i is light, medium or heavy as i % 3 is 0, 1 or 2.
MixedFunc(i) == IF i % 3 = 0 THEN "light_task" ELSE IF i % 3 = 1 THEN "medium_task" ELSE "heavy_task"
MixedWeight(i) == IF i % 3 = 0 THEN TASK_LIGHT ELSE IF i % 3 = 1 THEN TASK_MEDIUM ELSE TASK_HEAVY

\* The queue after the submissions i, i + 1, ..., n - 1, starting at tail = i.
RECURSIVE MixedQueue(_, _, _, _)
MixedQueue(q, i, n, cap) ==
    IF i >= n THEN q
    ELSE MixedQueue(Submitted(q, i, cap, MixedFunc(i), <<0, 0>>, MixedWeight(i)), i + 1, n, cap)

\* -------------------------------------------------- benchmark_schedule_mode
MAX_THREADS == 32

\* The caller's array of latency samples has more slots (MAX_TASKS) than there
\* are tasks: slot n stands for the slots behind the n tasks.  The model keeps
\* how often a slot was written, not the sample.
LatencyArray(n) == [i \in 0..n |-> 0]

\* Faulty variant: the sample goes to the slot after that of the task
LatencySlotNext(i) == i + 1

\* task_latencies[i] = ...: the slot of task i
LatencySlot(i) == i

\* Lines 105-107: scheduler_init(&sched, num_threads, ntasks, mode) and the
\* mixed workload of ntasks tasks; the caller's arrays start zeroed (main).
InitBench ==
    /\ \E nt \in 1..MaxThreads, n \in 1..MaxBenchTasks, m \in HarnessModes :
          /\ task_queue = MixedQueue(EmptyQueue(n), 0, n, n)
          /\ capacity = n
          /\ head = 0
          /\ tail = n
          /\ active_tasks = n
          /\ num_threads = nt
          /\ mode = m
          /\ running = FALSE
          /\ tasks_completed = 0
          /\ nthreads_var = nt
          /\ exec_count = [i \in 0..(n - 1) |-> 0]
          /\ latency_writes = LatencyArray(n)
    /\ thread_counts = [t \in 0..(MAX_THREADS - 1) |-> 0]
    /\ executed = << >>
    /\ pc = "bench"
    /\ counter = 0
    /\ result = 0
    /\ NoRun
    /\ NoReduction
    /\ NoHist
    /\ NoExt

AtBench(t, p) ==
    /\ pc = "bench_region"
    /\ t \in Team
    /\ thr[t].pc = p

BenchGoto(t, to) ==
    /\ thr' = [thr EXCEPT ![t] = Left(to)]
    /\ UNCHANGED <<schedVars, pc, next_iter, total, sorted, light_count, chunks,
                   exec_count, bodyVars, redVars, benchVars, histVars, extVars>>

\* Line 113: the harness opens its own parallel region; `mode` is not looked at
\* and scheduler_run is not called.
bench_fork ==
    /\ pc = "bench"
    /\ pc' = "bench_region"
    /\ thr' = Fork("DYNAMIC", tail, 0)
    /\ executed' = [t \in 0..(nthreads_var - 1) |-> 0]
    /\ next_iter' = 0
    /\ total' = tail
    /\ UNCHANGED <<schedVars, sorted, light_count, chunks, exec_count, bodyVars,
                   redVars, thread_counts, latency_writes, histVars, extVars>>

\* Line 117-118: omp for schedule(dynamic, 1) over [0, sched.tail)
bench_claim(t) ==
    /\ AtBench(t, "claim")
    /\ next_iter < total
    /\ thr' = [thr EXCEPT ![t] = Chunk(next_iter, next_iter + 1, "claim")]
    /\ next_iter' = next_iter + 1
    /\ UNCHANGED <<schedVars, pc, total, sorted, light_count, chunks, exec_count,
                   bodyVars, redVars, benchVars, histVars, extVars>>

\* Lines 119-123: the task, executed++, task_latencies[i] = ...
bench_call(t) ==
    /\ AtBench(t, "loop")
    /\ TaskBody(task_queue[thr[t].i])
    /\ executed' = [executed EXCEPT ![t] = @ + 1]
    /\ latency_writes' = [latency_writes EXCEPT ![LatencySlot(thr[t].i)] = @ + 1]
    /\ thr' = [thr EXCEPT ![t] = Left("claim")]
    /\ UNCHANGED <<schedVars, pc, next_iter, total, sorted, light_count, chunks,
                   redVars, thread_counts, histVars, extVars>>

\* The loop's implicit barrier.
bench_exit(t) ==
    /\ AtBench(t, "claim")
    /\ ~(next_iter < total)
    /\ BenchGoto(t, "barrier")

\* Line 125: thread_counts[tid] = executed, once every thread left the loop.
bench_count(t) ==
    /\ AtBench(t, "barrier")
    /\ \A u \in Team : thr[u].pc \in {"barrier", "done"}
    /\ thread_counts' = [thread_counts EXCEPT ![t] = executed[t]]
    /\ thr' = [thr EXCEPT ![t] = Left("done")]
    /\ UNCHANGED <<schedVars, pc, next_iter, total, sorted, light_count, chunks,
                   exec_count, bodyVars, redVars, executed, latency_writes, histVars, extVars>>

\* Lines 126-132: the end of the region; scheduler_destroy frees the queue.
bench_join ==
    /\ pc = "bench_region"
    /\ AllDone
    /\ pc' = "bench_done"
    /\ thr' = << >>
    /\ UNCHANGED <<schedVars, next_iter, total, sorted, light_count, chunks,
                   exec_count, bodyVars, redVars, benchVars, histVars, extVars>>

bench_worker(t) ==
    \/ bench_claim(t)
    \/ bench_call(t)
    \/ bench_exit(t)
    \/ bench_count(t)

benchmark_schedule_mode ==
    \/ bench_fork
    \/ \E t \in 0..(MaxThreads - 1) : bench_worker(t)
    \/ bench_join

SpecBench == InitBench /\ [][benchmark_schedule_mode]_vars

\* -------------------------------------------------- print_latency_histogram
\* Latencies in whole milliseconds.
SampleValues == {0, 1, 2, 4, 5, 9, 10, 19, 20, 49, 50, 99, 100, 250}

\* Faulty variant: the comparisons made with <= instead of <
BucketOfInclusive(l) ==
    IF l <= 1 THEN 0
    ELSE IF l <= 2 THEN 1
    ELSE IF l <= 5 THEN 2
    ELSE IF l <= 10 THEN 3
    ELSE IF l <= 20 THEN 4
    ELSE IF l <= 50 THEN 5
    ELSE IF l <= 100 THEN 6
    ELSE 7

\* The if-chain of lines 182-189: the bucket that a latency l is counted in.
BucketOf(l) ==
    IF l < 1 THEN 0
    ELSE IF l < 2 THEN 1
    ELSE IF l < 5 THEN 2
    ELSE IF l < 10 THEN 3
    ELSE IF l < 20 THEN 4
    ELSE IF l < 50 THEN 5
    ELSE IF l < 100 THEN 6
    ELSE 7

InitHist ==
    /\ \E n \in 0..MaxSamples : latencies \in [0..(n - 1) -> SampleValues]
    /\ buckets = [b \in 0..(NumBuckets - 1) |-> 0]
    /\ hist_i = 0
    /\ pc = "hist"
    /\ \E nt \in {1}, cap \in {1}, m \in {"STATIC"} : scheduler_init(nt, cap, m)
    /\ exec_count = << >>
    /\ counter = 0
    /\ result = 0
    /\ NoRun
    /\ NoReduction
    /\ NoBench
    /\ NoExt

\* One iteration of the loop over the samples.
hist_count ==
    /\ pc = "hist"
    /\ hist_i < Cardinality(DOMAIN latencies)
    /\ buckets' = [buckets EXCEPT ![BucketOf(latencies[hist_i])] = @ + 1]
    /\ hist_i' = hist_i + 1
    /\ UNCHANGED <<schedVars, pc, runVars, bodyVars, redVars, benchVars, latencies,
                   extVars>>

\* The loop's end; the eight counts are printed.
hist_print ==
    /\ pc = "hist"
    /\ ~(hist_i < Cardinality(DOMAIN latencies))
    /\ pc' = "hist_done"
    /\ UNCHANGED <<schedVars, runVars, bodyVars, redVars, benchVars, histVars, extVars>>

print_latency_histogram ==
    \/ hist_count
    \/ hist_print

SpecHist == InitHist /\ [][print_latency_histogram]_vars

\* ----------------------------------------------------- benchmark_lock_based
\* Faulty variant: omp_set_lock does not wait for the holder
LockUnsetAlways(l) == TRUE

\* omp_set_lock returns when the lock is unset
LockUnset(l) == l = -1

\* The call benchmark_lock_based(T, num_tasks, thread_counts, task_latencies)
\* with the zeroed arrays of main; there is no scheduler in this function.
InitLock ==
    /\ \E nt \in 1..MaxThreads, n \in 0..MaxBenchTasks :
          /\ threads = nt
          /\ total = n
          /\ exec_count = [i \in 0..(n - 1) |-> 0]
          /\ latency_writes = LatencyArray(n)
    /\ thread_counts = [t \in 0..(MAX_THREADS - 1) |-> 0]
    /\ executed = << >>
    /\ pc = "lock_entry"
    /\ scheduler_init(1, 1, "STATIC")
    /\ counter = 0
    /\ result = 0
    /\ thr = << >>
    /\ next_iter = 0
    /\ sorted = << >>
    /\ light_count = 0
    /\ chunks = << >>
    /\ load_i = 0
    /\ load_min = 0
    /\ load_max = 0
    /\ load_sum = 0
    /\ load_mean = Ratio(0, 1)
    /\ fairness = Ratio(0, 1)
    /\ NoLock
    /\ NoReduction
    /\ NoHist
    /\ null_deref = FALSE

\* What no step of the lock-based comparator touches.
LockFrame ==
    UNCHANGED <<task_queue, capacity, head, tail, active_tasks, num_threads, mode,
                running, tasks_completed, next_iter, total, sorted, light_count, chunks,
                bodyVars, redVars, executed, histVars, loadVars, null_deref>>

AtLock(t, p) ==
    /\ pc = "lock_region"
    /\ t \in Team
    /\ thr[t].pc = p

\* A thread of the comparator at label p with my_task = i.
LockThread(p, i) == [pc |-> p, i |-> i, end |-> 0, exit |-> "done"]

\* Lines 27-47: omp_set_num_threads, the lock, next_task_idx = 0, the region;
\* every thread starts its loop with my_task = -1.
lock_fork ==
    /\ pc = "lock_entry"
    /\ pc' = "lock_region"
    /\ nthreads_var' = threads
    /\ task_lock' = -1
    /\ next_task_idx' = 0
    /\ thr' = [t \in 0..(threads - 1) |-> LockThread("lock", -1)]
    /\ UNCHANGED <<exec_count, thread_counts, latency_writes>>
    /\ LockFrame

\* Line 49: omp_set_lock
lock_set(t) ==
    /\ AtLock(t, "lock")
    /\ LockUnset(task_lock)
    /\ task_lock' = t
    /\ thr' = [thr EXCEPT ![t] = LockThread("test", -1)]
    /\ UNCHANGED <<pc, nthreads_var, next_task_idx, exec_count, thread_counts, latency_writes>>
    /\ LockFrame

\* Lines 50-51: the test and my_task = next_task_idx
lock_test(t) ==
    /\ AtLock(t, "test")
    /\ thr' = [thr EXCEPT ![t] = IF next_task_idx < total
                                     THEN LockThread("incr", next_task_idx)
                                     ELSE LockThread("unlock", -1)]
    /\ UNCHANGED <<pc, nthreads_var, lockVars, exec_count, thread_counts, latency_writes>>
    /\ LockFrame

\* Line 52: next_task_idx++
lock_incr(t) ==
    /\ AtLock(t, "incr")
    /\ next_task_idx' = next_task_idx + 1
    /\ thr' = [thr EXCEPT ![t].pc = "unlock"]
    /\ UNCHANGED <<pc, nthreads_var, task_lock, exec_count, thread_counts, latency_writes>>
    /\ LockFrame

\* Lines 54-58: omp_unset_lock, then the thread leaves its loop if it has no task
lock_unset(t) ==
    /\ AtLock(t, "unlock")
    /\ task_lock' = -1
    /\ thr' = [thr EXCEPT ![t].pc = IF thr[t].i = -1 THEN "done" ELSE "body"]
    /\ UNCHANGED <<pc, nthreads_var, next_task_idx, exec_count, thread_counts, latency_writes>>
    /\ LockFrame

\* Lines 60-87: the work of task my_task on private data and its latency sample
lock_body(t) ==
    /\ AtLock(t, "body")
    /\ exec_count' = IF thr[t].i \in DOMAIN exec_count
                         THEN [exec_count EXCEPT ![thr[t].i] = @ + 1]
                         ELSE exec_count
    /\ latency_writes' = [latency_writes EXCEPT ![LatencySlot(thr[t].i)] = @ + 1]
    /\ thr' = [thr EXCEPT ![t].pc = "count"]
    /\ UNCHANGED <<pc, nthreads_var, lockVars, thread_counts>>
    /\ LockFrame

\* Lines 89-90: thread_counts[tid]++ under `#pragma omp atomic`; the next round
lock_count(t) ==
    /\ AtLock(t, "count")
    /\ thread_counts' = [thread_counts EXCEPT ![t] = AtomicAdd(@, 1)]
    /\ thr' = [thr EXCEPT ![t] = LockThread("lock", -1)]
    /\ UNCHANGED <<pc, nthreads_var, lockVars, exec_count, latency_writes>>
    /\ LockFrame

\* Lines 92-99: the end of the region
lock_join ==
    /\ pc = "lock_region"
    /\ AllDone
    /\ pc' = "lock_done"
    /\ thr' = << >>
    /\ UNCHANGED <<nthreads_var, lockVars, exec_count, thread_counts, latency_writes>>
    /\ LockFrame

lock_worker(t) ==
    \/ lock_set(t)
    \/ lock_test(t)
    \/ lock_incr(t)
    \/ lock_unset(t)
    \/ lock_body(t)
    \/ lock_count(t)

benchmark_lock_based ==
    \/ lock_fork
    \/ \E t \in 0..(MaxThreads - 1) : lock_worker(t)
    \/ lock_join

SpecLock == InitLock /\ [][benchmark_lock_based]_vars

\* Every thread of the team keeps running.
FairSpecLock == SpecLock /\ WF_vars(benchmark_lock_based)

\* The runs of the harness that record latencies: a policy run or the
\* lock-based comparator.
InitHarness ==
    \/ InitBench
    \/ InitLock

NextHarness ==
    \/ benchmark_schedule_mode
    \/ benchmark_lock_based

SpecHarness == InitHarness /\ [][NextHarness]_vars

\* ------------------------------------------------------ analyze_thread_load
\* The doubles *mean and *fairness are kept as exact rationals; the standard
\* deviation (lines 165-168) does not enter the fairness and is left out.
\* Faulty variant: the ratio taken the wrong way round
FairnessInverted(min, mean) ==
    IF mean.num > 0 THEN Ratio(100 * mean.num, min * mean.den) ELSE Ratio(0, 1)

\* Line 170: *fairness = (*mean > 0) ? 100.0 * (*min) / (*mean) : 0.0
Fairness(min, mean) ==
    IF mean.num > 0 THEN Ratio(100 * min * mean.den, mean.num) ELSE Ratio(0, 1)

\* The call analyze_thread_load(threads, thread_counts, ...): any vector of
\* non-negative counts of up to MaxLoadThreads workers.
InitLoad ==
    /\ \E w \in 1..MaxLoadThreads :
          /\ threads = w
          /\ thread_counts \in [0..(w - 1) -> 0..MaxCount]
    /\ load_i = 0
    /\ load_min = 0
    /\ load_max = 0
    /\ load_sum = 0
    /\ load_mean = Ratio(0, 1)
    /\ fairness = Ratio(0, 1)
    /\ pc = "load_entry"
    /\ scheduler_init(1, 1, "STATIC")
    /\ exec_count = << >>
    /\ counter = 0
    /\ result = 0
    /\ executed = << >>
    /\ latency_writes = << >>
    /\ NoRun
    /\ NoReduction
    /\ NoHist
    /\ NoLock
    /\ null_deref = FALSE

LoadFrame ==
    UNCHANGED <<schedVars, runVars, bodyVars, redVars, benchVars, histVars, lockVars,
                null_deref, threads>>

\* Lines 153-155
load_start ==
    /\ pc = "load_entry"
    /\ load_min' = thread_counts[0]
    /\ load_max' = thread_counts[0]
    /\ load_sum' = 0
    /\ load_i' = 0
    /\ pc' = "load"
    /\ UNCHANGED <<load_mean, fairness>>
    /\ LoadFrame

\* Lines 157-161: one iteration of the first loop
load_scan ==
    /\ pc = "load"
    /\ load_i < threads
    /\ load_min' = IF thread_counts[load_i] < load_min THEN thread_counts[load_i] ELSE load_min
    /\ load_max' = IF thread_counts[load_i] > load_max THEN thread_counts[load_i] ELSE load_max
    /\ load_sum' = load_sum + thread_counts[load_i]
    /\ load_i' = load_i + 1
    /\ UNCHANGED <<pc, load_mean, fairness>>
    /\ LoadFrame

\* Lines 163-170: the mean and the fairness
load_finish ==
    /\ pc = "load"
    /\ ~(load_i < threads)
    /\ load_mean' = Ratio(load_sum, threads)
    /\ fairness' = Fairness(load_min, Ratio(load_sum, threads))
    /\ pc' = "load_done"
    /\ UNCHANGED <<load_i, load_min, load_max, load_sum>>
    /\ LoadFrame

analyze_thread_load ==
    \/ load_start
    \/ load_scan
    \/ load_finish

SpecLoad == InitLoad /\ [][analyze_thread_load]_vars

\* ================================================================== claims
Returned == pc \in {"returned", "waiting", "waited"}

\* C1: for N <= capacity tasks, every worker count and every policy, when
\* scheduler_run has returned each of the N tasks was executed exactly once
\* and metrics.tasks_completed = N.
C1_EachTaskExactlyOnce ==
    (Returned /\ tail <= capacity) =>
        /\ \A i \in 0..(tail - 1) : exec_count[task_queue[i].id] = 1
        /\ tasks_completed = tail
        /\ counter = tail

C1_Witness ==
    /\ pc = "returned"
    /\ tail >= 3
    /\ num_threads >= 2
    /\ tasks_completed = tail

\* C2 (as claimed): a scheduler_submit on a full queue leaves the queue and
\* tail as they are, so tail never exceeds capacity and no slot is overwritten.
C2_FullQueueRejects ==
    [][tail >= capacity => (task_queue' = task_queue /\ tail' = tail)]_vars

\* C3: a run completes: scheduler_run returns, at its return no task is
\* outstanding (active_tasks = 0, all N executed), and a scheduler_wait called
\* afterwards returns.
C3_RunCompletes ==
    /\ (pc = "running") ~> (pc = "returned")
    /\ [](Returned => (active_tasks = 0 /\ tasks_completed = tail))
    /\ (pc = "waiting") ~> (pc = "waited")

C3_Witness ==
    /\ pc = "waited"
    /\ tail >= 2
    /\ active_tasks = 0

\* C4 (as claimed): after n submissions slot i holds the task with id i, for
\* every i in [0, n).
C4_DenseIds ==
    \A i \in 0..(tail - 1) : i \in DOMAIN task_queue /\ task_queue[i].id = i

\* C6: the reordered buffer is a stable partition of the queue: a permutation
\* of its N tasks, light before medium before heavy, each class in id order.
C6_StablePartition ==
    (pc = "running" /\ mode \in HeteroModes) =>
        /\ DOMAIN sorted = 0..(total - 1)
        /\ \A i \in 0..(total - 1) :
              Cardinality({k \in 0..(total - 1) : sorted[k] = task_queue[i]}) = 1
        /\ \A k1, k2 \in 0..(total - 1) :
              k1 < k2 =>
                 /\ sorted[k1].weight <= sorted[k2].weight
                 /\ sorted[k1].weight = sorted[k2].weight => sorted[k1].id < sorted[k2].id

C6_Witness ==
    /\ pc = "running"
    /\ mode = "HETEROGENEOUS"
    /\ total >= 3
    /\ \E k \in 0..(total - 1) : sorted[k].id # k
    /\ \E k1, k2 \in 0..(total - 1) : k1 # k2 /\ sorted[k1].weight = sorted[k2].weight
    /\ \E k \in 0..(total - 1) : sorted[k].weight = TASK_MEDIUM
    /\ \E k \in 0..(total - 1) : sorted[k].weight = TASK_HEAVY

Started(k) == exec_count[sorted[k].id] > 0

\* C7 (as claimed): with two or more workers no medium or heavy task is
\* started before every light task has been started.
C7_AllLightBeforeAnyHeavy ==
    (pc = "running" /\ mode \in HeteroModes /\ Cardinality(Team) >= 2) =>
        ((\E k \in light_count..(total - 1) : Started(k)) =>
            \A k \in 0..(light_count - 1) : Started(k))

\* The light positions that the static split gives to worker w.
LightChunkOf(w) ==
    LET c == (light_count + Cardinality(Team) - 1) \div Cardinality(Team)
    IN  {k \in 0..(light_count - 1) : w * c <= k /\ k < (w + 1) * c}

\* Worker w has left its light loop: it is claiming, at the barrier, or busy
\* with a position of the medium and heavy part.
InDynamicPhase(w) ==
    \/ thr[w].pc \in {"claim", "done"}
    \/ thr[w].pc \in {"loop", "completed", "active"} /\ thr[w].i >= light_count

\* C7 (amended): a worker claims a medium or heavy task only after it has
\* executed every light task of its own static chunk; the light tasks of the
\* other workers may still be waiting.
C7_OwnLightBeforeHeavy ==
    (pc = "running" /\ mode \in HeteroModes /\ Cardinality(Team) >= 2) =>
        \A w \in Team : InDynamicPhase(w) => \A k \in LightChunkOf(w) : Started(k)

C7_Witness ==
    /\ pc = "running"
    /\ mode = "HETEROGENEOUS"
    /\ Cardinality(Team) >= 2
    /\ light_count >= 2
    /\ \E k \in light_count..(total - 1) : Started(k)
    /\ \E k \in 0..(light_count - 1) : ~Started(k)

RECURSIVE SumSeq(_, _)
SumSeq(s, n) == IF n = 0 THEN 0 ELSE s[n] + SumSeq(s, n - 1)

\* q = max(1, ceil(a / b))
IsMaxOneCeil(q, a, b) ==
    \/ q = 1 /\ a <= b
    \/ q > 1 /\ q * b >= a /\ (q - 1) * b < a

ChunkStart(k) == task_queue[k].arg[1]
ChunkStop(k) == task_queue[k].arg[2]

\* C9: for an array of n >= 100 ones the chunk tasks cover [0, n) without gap
\* or overlap, and when all tasks have run, under any policy, team size and
\* interleaving, the shared result is n.
C9_ReductionSum ==
    /\ (array_size >= ReductionChunks /\ pc = "idle") =>
          /\ tail >= 1
          /\ ChunkStart(0) = 0
          /\ ChunkStop(tail - 1) = array_size
          /\ \A k \in 0..(tail - 1) : ChunkStart(k) < ChunkStop(k)
          /\ \A k \in 0..(tail - 2) : ChunkStop(k) = ChunkStart(k + 1)
    /\ (array_size >= ReductionChunks /\ Returned) => result = array_size

C9_Witness ==
    /\ pc = "returned"
    /\ array_size > 2 * ReductionChunks
    /\ num_threads = 2
    /\ mode = "STATIC"
    /\ result = array_size
    /\ ChunkStop(tail - 1) - ChunkStart(tail - 1) < ChunkStop(0) - ChunkStart(0)


RECURSIVE SumTo(_, _)
SumTo(f, n) == IF n = 0 THEN 0 ELSE f[n - 1] + SumTo(f, n - 1)

\* C5 (as claimed): after a harness run of N tasks with W workers the W
\* per-worker slots sum to N and to the scheduler's metrics.tasks_completed.
C5_CountersSumToCompleted ==
    (pc = "bench_done") =>
        /\ SumTo(thread_counts, num_threads) = tail
        /\ SumTo(thread_counts, num_threads) = tasks_completed

\* The eight bands of the histogram: band b is [BandLow[b + 1], BandLow[b + 2]),
\* the last one has no upper end.
BandLow == <<0, 1, 2, 5, 10, 20, 50, 100>>

InBand(l, b) ==
    /\ BandLow[b + 1] <= l
    /\ b + 1 < NumBuckets => l < BandLow[b + 2]

\* C10: each of the N samples is counted in exactly one of the 8 bands, the one
\* that contains it, so the counts sum to N.
C10_HistogramCounts ==
    /\ SumTo(buckets, NumBuckets) = hist_i
    /\ (pc = "hist_done") =>
          /\ \A b \in 0..(NumBuckets - 1) :
                buckets[b] = Cardinality({i \in DOMAIN latencies : InBand(latencies[i], b)})
          /\ SumTo(buckets, NumBuckets) = Cardinality(DOMAIN latencies)

C10_Witness ==
    /\ pc = "hist_done"
    /\ Cardinality(DOMAIN latencies) = 2
    /\ latencies[0] = 5
    /\ latencies[1] = 100
    /\ buckets[3] = 1
    /\ buckets[7] = 1

\* C11: for any vector of W >= 1 non-negative counts the fairness that
\* analyze_thread_load yields is 100 * min / mean and lies in [0, 100] when the
\* mean is not zero, is exactly 100 when all workers have the same nonzero
\* count, and is 0 when the mean is 0.
MinCount == CHOOSE c \in {thread_counts[i] : i \in 0..(threads - 1)} :
                \A i \in 0..(threads - 1) : c <= thread_counts[i]
C11_FairnessRatio ==
    pc = "load_done" =>
        LET sum == SumTo(thread_counts, threads)
        IN  /\ fairness.den > 0
            /\ sum > 0 => /\ fairness.num * sum = 100 * MinCount * threads * fairness.den
                          /\ 0 <= fairness.num
                          /\ fairness.num <= 100 * fairness.den
            /\ (MinCount > 0 /\ \A i \in 0..(threads - 1) : thread_counts[i] = MinCount)
                  => fairness.num = 100 * fairness.den
            /\ sum = 0 => fairness.num = 0
C11_Witness ==
    /\ pc = "load_done"
    /\ threads >= 2
    /\ MinCount > 0
    /\ \E i \in 0..(threads - 1) : thread_counts[i] > MinCount
    /\ fairness.num < 100 * fairness.den

\* A thread that holds a task index: before the call, or between the call and
\* the end of the loop body.
InFlight(w) == w.pc \in {"loop", "completed", "active"}

\* How far a thread got in the range lo..hi-1: the first index it has not called.
Position(w, lo, hi) ==
    IF w.pc = "loop" THEN w.i
    ELSE IF w.pc \in {"completed", "active"} THEN w.i + 1
    ELSE IF w.pc = "done" /\ lo < hi THEN hi
    ELSE lo

Called(k) == exec_count[task_queue[k].id]

\* C12: under the Static policy with len tasks and W workers, worker w calls
\* exactly the indices of [w*chunk, min((w+1)*chunk, len)), chunk = ceil(len/W),
\* in ascending order; a worker with w*chunk >= len calls nothing, and no
\* worker holds an index >= len.
C12_StaticChunks ==
    (pc = "running" /\ mode = "STATIC") =>
        LET W == Cardinality(Team)
            chunk == IF total % W = 0 THEN total \div W ELSE (total \div W) + 1
        IN  \A w \in Team :
                LET lo == w * chunk
                    hi == IF (w + 1) * chunk < total THEN (w + 1) * chunk ELSE total
                IN  /\ InFlight(thr[w]) => /\ lo <= thr[w].i
                                           /\ thr[w].i < hi
                                           /\ thr[w].i < total
                    /\ lo >= total => thr[w].pc = "done"
                    /\ \A k \in 0..(total - 1) :
                          (lo <= k /\ k < hi) =>
                              Called(k) = IF k < Position(thr[w], lo, hi) THEN 1 ELSE 0
C12_Witness ==
    /\ pc = "running"
    /\ mode = "STATIC"
    /\ total = 3
    /\ Cardinality(Team) = 2
    /\ thr[0].pc = "loop" /\ thr[0].i = 1
    /\ thr[1].pc = "active" /\ thr[1].i = 2

\* The workers that hold index k and have not called it yet.
Holding(k) == {w \in Team : thr[w].pc = "loop" /\ thr[w].i = k}

\* C13: under the Dynamic policy the cursor grants one index at a time, in the
\* order 0, 1, ..., len-1: the granted indices are those below the cursor, each
\* of them is held by one worker or was called once (never both, never by two
\* workers), no index >= len is granted, and a worker only stops claiming when
\* no index remains.
C13_DynamicCursor ==
    (pc = "running" /\ mode = "DYNAMIC") =>
        /\ next_iter <= total
        /\ \A k \in 0..(total - 1) :
              Cardinality(Holding(k)) + Called(k) = IF k < next_iter THEN 1 ELSE 0
        /\ \A w \in Team :
              /\ InFlight(thr[w]) => (thr[w].i < next_iter /\ thr[w].end = thr[w].i + 1)
              /\ thr[w].pc = "done" => next_iter = total
        /\ \A v, w \in Team : (v # w /\ InFlight(thr[v]) /\ InFlight(thr[w])) => thr[v].i # thr[w].i
C13_Witness ==
    /\ pc = "running"
    /\ mode = "DYNAMIC"
    /\ total = 3
    /\ next_iter = 3
    /\ Cardinality(Team) = 2
    /\ thr[0].pc = "loop" /\ thr[0].i = 2
    /\ thr[1].pc = "loop" /\ thr[1].i = 1
    /\ Called(0) = 1

\* The workers of the comparator that hold index k as my_task and have not
\* done its work yet.
LockHolding(k) == {w \in Team : thr[w].pc \in {"incr", "unlock", "body"} /\ thr[w].i = k}

\* C14: in the lock-based comparator next_task_idx is read and incremented
\* only by the holder of the lock, the lock is released before the task body
\* runs, each index of [0, n) is claimed by exactly one worker, every worker's
\* loop terminates once next_task_idx = n, and on return the per-worker counts
\* sum to n.
C14_LockBasedClaims ==
    /\ [][next_task_idx' # next_task_idx =>
            (task_lock \in Team /\ thr[task_lock].pc = "incr" /\ next_task_idx < total)]_vars
    /\ [](pc = "lock_region" =>
            /\ \A w \in Team :
                  /\ thr[w].pc \in {"test", "incr", "unlock"} => task_lock = w
                  /\ thr[w].pc \in {"body", "count"} => (task_lock # w /\ thr[w].i < total)
                  /\ thr[w].pc = "done" => next_task_idx = total
            /\ \A k \in 0..(total - 1) :
                  /\ Cardinality(LockHolding(k)) + exec_count[k] <= 1
                  /\ k < next_task_idx => Cardinality(LockHolding(k)) + exec_count[k] = 1)
    /\ (pc = "lock_region") ~> (pc = "lock_done")
    /\ [](pc = "lock_done" =>
            /\ next_task_idx = total
            /\ \A k \in 0..(total - 1) : exec_count[k] = 1
            /\ SumTo(thread_counts, threads) = total)
C14_Witness ==
    /\ pc = "lock_region"
    /\ threads = 2
    /\ total >= 3
    /\ thr[0].pc = "body" /\ thr[0].i = 1
    /\ thr[1].pc = "incr" /\ thr[1].i = 2
    /\ thread_counts[0] = 1

\* How often the task at position k of the reordered buffer was called.
CalledAt(k) == exec_count[sorted[k].id]

\* The first light position of lo..hi-1 that a worker has not called yet.
LightPosition(w, lo, hi) ==
    IF InFlight(w) /\ w.i < light_count
        THEN (IF w.pc = "loop" THEN w.i ELSE w.i + 1)
        ELSE hi

\* C15: in phase 2 of the Heterogeneous policy the L light positions [0, L)
\* are split statically (worker w calls exactly [w*c, min((w+1)*c, L)),
\* c = ceil(L / W)), the positions [L, N) are claimed one at a time from the
\* cursor, and together the two loops call every position of [0, N) once.
C15_HeteroPhases ==
    (pc = "running" /\ mode \in HeteroModes) =>
        LET W == Cardinality(Team)
            L == light_count
            c == IF L % W = 0 THEN L \div W ELSE (L \div W) + 1
        IN  /\ L <= next_iter /\ next_iter <= total
            /\ \A w \in Team :
                  LET lo == w * c
                      hi == IF (w + 1) * c < L THEN (w + 1) * c ELSE L
                  IN  /\ (InFlight(thr[w]) /\ thr[w].i < L) => (lo <= thr[w].i /\ thr[w].i < hi)
                      /\ (InFlight(thr[w]) /\ thr[w].i >= L) =>
                            (thr[w].i < next_iter /\ thr[w].end = thr[w].i + 1)
                      /\ thr[w].pc = "done" => next_iter = total
                      /\ \A k \in 0..(L - 1) :
                            (lo <= k /\ k < hi) =>
                                CalledAt(k) = IF k < LightPosition(thr[w], lo, hi) THEN 1 ELSE 0
            /\ \A k \in L..(total - 1) :
                  Cardinality(Holding(k)) + CalledAt(k) = IF k < next_iter THEN 1 ELSE 0
            /\ AllDone => \A k \in 0..(total - 1) : CalledAt(k) = 1
C15_Witness ==
    /\ pc = "running"
    /\ mode = "HETEROGENEOUS"
    /\ Cardinality(Team) = 2
    /\ total = 3
    /\ light_count = 2
    /\ thr[0].pc = "loop" /\ thr[0].i = 2
    /\ thr[1].pc = "loop" /\ thr[1].i = 1
    /\ CalledAt(0) = 1

\* C16 (as claimed): a harness run for policy M hands the queue to scheduler_run
\* for M: tasks go to the workers as M prescribes (for Static, a worker only
\* gets indices of its contiguous chunk) and every task execution is counted
\* in the scheduler's metrics.
C16_HarnessRunsPolicy ==
    (pc \in {"bench_region", "bench_done"}) =>
        /\ tasks_completed + Cardinality({w \in Team : thr[w].pc = "completed"})
              = SumTo(exec_count, tail)
        /\ (pc = "bench_region" /\ mode = "STATIC") =>
              \A w \in Team :
                  thr[w].pc = "loop" =>
                      LET chunk == ChunkSize(total, Cardinality(Team))
                      IN  w * chunk <= thr[w].i /\ thr[w].i < (w + 1) * chunk

\* C17 (as claimed): scheduler_run of a scheduler initialised with
\* num_threads = k runs with exactly k workers, also when another scheduler
\* was initialised with another thread count before the run.
C17_TeamOfNumThreads ==
    (pc = "running") => Cardinality(Team) = num_threads

\* C18: in every run that records latencies (a harness policy run or the
\* lock-based comparator) slot i of the samples is written once, by the worker
\* that executes task i and when it does, and no slot outside [0, number of
\* tasks) is written.
C18_LatencySlotsOnce ==
    (pc \in {"bench_region", "bench_done", "lock_region", "lock_done"}) =>
        /\ \A i \in DOMAIN latency_writes :
              /\ i >= total => latency_writes[i] = 0
              /\ i < total => (latency_writes[i] = exec_count[i] /\ latency_writes[i] <= 1)
        /\ (pc \in {"bench_done", "lock_done"}) =>
              \A i \in 0..(total - 1) : latency_writes[i] = 1
C18_Witness ==
    /\ pc = "bench_done"
    /\ total = 3
    /\ thread_counts[0] >= 1
    /\ thread_counts[1] >= 1
    /\ \A i \in 0..2 : latency_writes[i] = 1

\* C19: scheduler_run leaves the queue as it is under every policy: from the
\* call to the return no step changes task_queue, head, tail, capacity or mode
\* (the Heterogeneous policy reorders a copy), and head is 0 in every state.
C19_RunLeavesQueue ==
    /\ [][(pc = "running" \/ pc' = "running") =>
            UNCHANGED <<task_queue, head, tail, capacity, mode>>]_vars
    /\ [](head = 0)
C19_Witness ==
    /\ pc = "returned"
    /\ mode = "HETEROGENEOUS"
    /\ tail = 3
    /\ tasks_completed = 3
    /\ task_queue[0].weight = TASK_HEAVY
    /\ task_queue[2].weight = TASK_LIGHT

\* C20 (as claimed): when the allocation of the reordered buffer fails the run
\* is aborted and the failure reaches the caller: the failed buffer is never
\* read or written, the process goes on, and no task is executed by that run.
C20_AllocFailureAborts ==
    /\ null_deref = FALSE
    /\ pc \notin {"crashed", "corrupt"}

\* C21: during a single scheduler_run over N <= capacity submitted tasks with
\* W workers, N <= tasks_completed + active_tasks <= N + W in every state,
\* tasks_completed never decreases, and when the run has returned
\* active_tasks = 0 and tasks_completed + active_tasks = N.
C21_CountersBracketed ==
    /\ [](pc = "running" =>
            /\ tail <= tasks_completed + active_tasks
            /\ tasks_completed + active_tasks <= tail + Cardinality(Team)
            /\ tasks_completed + active_tasks
                  = tail + Cardinality({w \in Team : thr[w].pc = "active"}))
    /\ [][tasks_completed' >= tasks_completed]_vars
    /\ [](Returned => (active_tasks = 0 /\ tasks_completed + active_tasks = tail))
C21_Witness ==
    /\ pc = "running"
    /\ Cardinality(Team) = 2
    /\ tail = 3
    /\ thr[0].pc = "active"
    /\ thr[1].pc = "active"
    /\ tasks_completed + active_tasks = tail + 2

\* C22 (as claimed): for any sequence of scheduler_submit, scheduler_run and
\* scheduler_wait calls after scheduler_init, a second scheduler_run included,
\* 0 <= active_tasks <= tail in every state and no task is executed more than
\* once.
C22_RerunSafe ==
    /\ 0 <= active_tasks
    /\ active_tasks <= tail
    /\ \A i \in DOMAIN exec_count : exec_count[i] <= 1

\* C23 (as claimed): run_reduction_workload terminates for every
\* array_size >= 1, array_size < 100 included, and the number of chunk tasks it
\* submits does not exceed array_size: the loop variable advances with every
\* submission.
C23_ReductionSubmitsBounded ==
    /\ tail <= array_size
    /\ (pc = "reduction" /\ tail > 0) => red_i > 0

====
